---- MODULE Spec2Model ----
(***************************************************************************)
(* A model of the voluptuous schema engine (voluptuous/schema_builder.py   *)
(* and voluptuous/error.py): the Schema facade, the marker classes, the    *)
(* scalar validators and the dictionary validator, with the heap of list   *)
(* objects that default factories allocate.                                *)
(***************************************************************************)
EXTENDS Integers, Sequences, FiniteSets, TLC

VARIABLES self, heap, last, outputs, frames

vars == <<self, heap, last, outputs, frames>>

(***************************************************************************)
(* Bounds of the model.                                                    *)
(***************************************************************************)
\* a validation call starts only while fewer list objects than this exist,
\* and fewer earlier calls than this handed lists to their callers
MaxHeap == 2
\* the longest list a caller builds from the scalar elements
MaxLen == 2
\* the number of Schemas that extend calls create
MaxExtends == 2
\* the number of items callers append, in all, to the lists they received
MaxAppends == 1
\* the number of objects a caller builds
MaxObjects == 1
\* the number of sub-validators of a composite
MaxValidators == 2
\* the number of threads that call one Schema at the same time
MaxThreads == 2

(***************************************************************************)
(* Program constants.                                                      *)
(***************************************************************************)
PREVENT_EXTRA == 0
ALLOW_EXTRA == 1
REMOVE_EXTRA == 2

\* the "no default" sentinel, an instance of class Undefined
UNDEFINED == [kind |-> "Undefined"]

(***************************************************************************)
(* Python values: every value carries its dynamic type in `kind`.          *)
(* A list is a reference into the heap, so that identity is observable.    *)
(***************************************************************************)
IntV(n) == [kind |-> "int", v |-> n]
StrV(s) == [kind |-> "str", s |-> s]
NoneV == [kind |-> "NoneType"]
ListRef(id) == [kind |-> "list", id |-> id]
DictV(items) == [kind |-> "dict", items |-> items]
TupleV(elems) == [kind |-> "tuple", elems |-> elems]
SetV(elems) == [kind |-> "set", elems |-> elems]
TypeV(name) == [kind |-> "type", name |-> name]

EmptyItems == [k \in {} |-> NoneV]

Put(items, k, v) ==
    [x \in (DOMAIN items) \cup {k} |-> IF x = k THEN v ELSE items[x]]

FnV(name) == [kind |-> "function", name |-> name]

\* callable(x) for the values of the model: class objects and functions
callable(x) == x.kind \in {"type", "function"}

\* isinstance(value, cls) for a class object cls of the model
isinstance(value, cls) == value.kind = cls.name

(***************************************************************************)
(* error.py: the error model.                                              *)
(***************************************************************************)
\* InvalidError.__init__: the path defaults to the empty list
Invalid(cls, message, path) ==
    [cls |-> cls, msg |-> message, path |-> path, errors |-> <<>>]

\* MultipleInvalidError.__init__: message "Multiple errors", a copy of errors
MultipleInvalid(errors) ==
    [cls |-> "MultipleInvalid", msg |-> "Multiple errors", path |-> <<>>,
     errors |-> errors]

\* an exception outside the Invalid family
Exception(cls, message) ==
    [cls |-> cls, msg |-> message, path |-> <<>>, errors |-> <<>>,
     invalid |-> FALSE]

\* isinstance(e, er.Invalid)
IsInvalid(e) == "invalid" \notin DOMAIN e

NoErr == [cls |-> "none"]
NoVal == [kind |-> "none"]

\* the two ways a validator finishes, with the heap it leaves behind
Return(v, h) == [ok |-> TRUE, val |-> v, err |-> NoErr, heap |-> h]
Raise(e, h) == [ok |-> FALSE, val |-> NoVal, err |-> e, heap |-> h]

(***************************************************************************)
(* The marker classes.  A plain (unmarked) key is kept in the same record  *)
(* shape with marker "none".                                               *)
(***************************************************************************)
\* default_factory: the closure lambda: default() if callable(default) else default
default_factory(default) == [kind |-> "function", default |-> default]

Plain(k) == [marker |-> "none", schema |-> k]
Required(k, default) ==
    [marker |-> "Required", schema |-> k, default |-> default_factory(default)]
Optional(k, default) ==
    [marker |-> "Optional", schema |-> k, default |-> default_factory(default)]
Remove(k) == [marker |-> "Remove", schema |-> k]

\* Exclusive and Inclusive derive from Optional; Exclusive passes no default on
Exclusive(k, group_of_exclusion) ==
    [marker |-> "Exclusive", schema |-> k,
     default |-> default_factory(UNDEFINED),
     group_of_exclusion |-> group_of_exclusion]
Inclusive(k, group_of_inclusion, default) ==
    [marker |-> "Inclusive", schema |-> k,
     default |-> default_factory(default),
     group_of_inclusion |-> group_of_inclusion]

\* str(VirtualPathComponent(g)): the path segment that names a group
VirtualPathComponent(g) == "<" \o g \o ">"

\* isinstance(key, Marker), isinstance(key, Required), isinstance(key, Optional)
IsMarker(key) == key.marker # "none"
IsRequired(key) == key.marker = "Required"
IsOptional(key) == key.marker \in {"Optional", "Exclusive", "Inclusive"}

\* every marker hashed by the identity of the marker object
MarkerHash_identity(key) ==
    IF key.marker # "none" THEN [obj |-> key.schema] ELSE [key |-> key.schema]

\* Marker.__hash__ is hash(schema_); Remove.__init__ replaces it by the
\* identity hash of the marker object, which no data key shares
MarkerHash(key) ==
    IF key.marker = "Remove" THEN [obj |-> key.schema] ELSE [key |-> key.schema]

\* Marker.__eq__: a marker equals whatever its wrapped key equals
MarkerEq(key, k) == key.schema = k

\* a factory that builds its list once and hands the same object out again
CallDefault_cached(f, h) ==
    IF callable(f.default)
    THEN IF Len(h) > 0 THEN Return(ListRef(1), h)
         ELSE Return(ListRef(Len(h) + 1), Append(h, <<>>))
    ELSE Return(f.default, h)

\* Invoking the closure default_factory returned.  Calling the class `list`
\* constructs a new list object in the heap.
CallDefault(f, h) ==
    IF callable(f.default)
    THEN Return(ListRef(Len(h) + 1), Append(h, <<>>))
    ELSE Return(f.default, h)

(***************************************************************************)
(* Schema definitions.  A scalar schema node is a Python value (a class, a *)
(* function or a literal); a dict schema keeps its items in insertion      *)
(* order, each item a key (plain or marker) and the schema of its value.   *)
(***************************************************************************)
DictS(entries) == [kind |-> "dict", entries |-> entries]

\* a list, tuple or set definition: the schemas of its entries, in the order
\* in which iterating the definition yields them
ListS(entries) == [kind |-> "list", entries |-> entries]
TupleS(entries) == [kind |-> "tuple", entries |-> entries]
SetS(entries) == [kind |-> "set", entries |-> entries]

\* Object(schema, cls): a dict of attribute names to schemas, with the class
\* the validated objects must be instances of
ObjectS(entries, cls) == [kind |-> "Object", entries |-> entries, cls |-> cls]

\* the composite validator Any(*validators), a _WithSubValidators; in the
\* definitions of the model a composite stands at the top level only
AnyS(validators) ==
    [kind |-> "Any", validators |-> validators, required |-> FALSE]

\* Any(*validators, required=required)
AnyOf(validators, required) ==
    [kind |-> "Any", validators |-> validators, required |-> required]

\* a schema object of the user whose own compile hook raises SchemaError
HookS == [kind |-> "Hook"]

Repr(v) ==
    IF v.kind = "int" THEN (IF v.v = 1 THEN "1" ELSE "0")
    ELSE IF v.kind = "str" THEN "'" \o v.s \o "'"
    ELSE "None"

\* str(v), as "%s" % v renders it; of the dicts only the empty one is rendered
Str(v) ==
    IF v.kind = "str" THEN v.s
    ELSE IF v.kind = "dict" THEN "{}"
    ELSE Repr(v)

(***************************************************************************)
(* The leaf callables supplied by the user of the library.  "strict"       *)
(* returns 1 and dicts unchanged, rejects 0 with a typed RangeInvalid,     *)
(* rejects a string with ValueError and fails on anything else with a      *)
(* TypeError.  "zero" maps every int to 0 and rejects anything else with   *)
(* ValueError.                                                             *)
(***************************************************************************)
UserCall(fn, value) ==
    IF fn.name = "zero"
    THEN IF value.kind = "int" THEN [tag |-> "return", val |-> IntV(0)]
         ELSE [tag |-> "ValueError"]
    ELSE
    IF value.kind = "int" /\ value.v = 1 THEN [tag |-> "return", val |-> value]
    ELSE IF value.kind = "int"
    THEN [tag |-> "Invalid",
          err |-> Invalid("RangeInvalid", "value out of range", <<>>)]
    ELSE IF value.kind = "str" THEN [tag |-> "ValueError"]
    ELSE IF value.kind = "dict" THEN [tag |-> "return", val |-> value]
    ELSE [tag |-> "Exception", str |-> "unsupported operand"]

(***************************************************************************)
(* _compile_scalar and the three closures it returns.                      *)
(***************************************************************************)
validate_instance(schema, path, value, h) ==
    IF isinstance(value, schema)
    THEN Return(value, h)
    ELSE Raise(Invalid("Invalid", "expected " \o schema.name, <<>>), h)

\* validate_callable without its last except clause
validate_callable_uncaught(schema, path, value, h) ==
    LET r == UserCall(schema, value) IN
    IF r.tag = "return" THEN Return(r.val, h)
    ELSE IF r.tag = "ValueError"
    THEN Raise(Invalid("Invalid", "not a valid value", <<>>), h)
    ELSE IF r.tag = "Invalid" THEN Raise(r.err, h)
    ELSE Raise(Exception("TypeError", r.str), h)

validate_callable(schema, path, value, h) ==
    LET r == UserCall(schema, value) IN
    IF r.tag = "return" THEN Return(r.val, h)
    ELSE IF r.tag = "ValueError"
    THEN Raise(Invalid("Invalid", "not a valid value", <<>>), h)
    ELSE IF r.tag = "Invalid" THEN Raise(r.err, h)
    ELSE Raise(Invalid("Invalid", r.str, <<>>), h)

validate_value(schema, path, value, h) ==
    IF value # schema
    THEN Raise(Invalid("Invalid", "expected " \o Repr(schema), <<>>), h)
    ELSE Return(value, h)

_compile_scalar(schema) ==
    IF schema.kind = "type" THEN [fn |-> "validate_instance", schema |-> schema]
    ELSE IF callable(schema) THEN [fn |-> "validate_callable", schema |-> schema]
    ELSE [fn |-> "validate_value", schema |-> schema]

\* _compile_dict returns the closure validate_dict over the mapping it is given
_compile_dict(schema) == [fn |-> "validate_dict", schema |-> schema]

\* _compile_sequence returns the closure validate_sequence over the entries it
\* is given and the sequence type; _compile_list and _compile_tuple fix the type
_compile_sequence(schema, seq_type) ==
    [fn |-> "validate_sequence", schema |-> schema, seq_type |-> seq_type]
_compile_list(schema) == _compile_sequence(schema, TypeV("list"))
_compile_tuple(schema) == _compile_sequence(schema, TypeV("tuple"))

\* _compile_set returns the closure validate_set over the entries it is given
_compile_set(schema) == [fn |-> "validate_set", schema |-> schema]

\* _compile_object returns the closure validate_object over the Object it is
\* given
_compile_object(schema) ==
    [fn |-> "validate_object", schema |-> schema.entries, cls |-> schema.cls]

RECURSIVE _compile(_)

\* schema._compile(v) as the hook of a composite sees it: delegating to the
\* compile hook of a schema object of the user raises what that hook raises
TryCompile(v) ==
    IF v.kind = "Hook"
    THEN [ok |-> FALSE, err |-> Exception("SchemaError", "bad schema")]
    ELSE [ok |-> TRUE, val |-> _compile(v)]

\* the loop of __voluptuous_compile__ from validator i on: schema.required is
\* set before each validator is compiled, and an exception of _compile ends
\* the method there
RECURSIVE compile_loop(_, _, _, _)
compile_loop(composite, schema, i, _compiled) ==
    IF i > Len(composite.validators)
    THEN [ok |-> TRUE, _compiled |-> _compiled, schema |-> schema]
    ELSE LET set == [schema EXCEPT !.required = composite.required]
             c == TryCompile(composite.validators[i])
         IN IF c.ok
            THEN compile_loop(composite, set, i + 1, Append(_compiled, c.val))
            ELSE [ok |-> FALSE, err |-> c.err, schema |-> set]

\* _WithSubValidators.__voluptuous_compile__: keeps the compiled validators
\* in _compiled and returns the bound method _run; schema.required is set
\* for the compilation of each validator and put back after the loop.  The
\* result holds the Schema as the method leaves it.
__voluptuous_compile__(composite, schema) ==
    LET old_required == schema.required
        r == compile_loop(composite, schema, 1, <<>>)
    IN IF r.ok
       THEN [ok |-> TRUE, err |-> NoErr,
             val |-> [fn |-> "_run", schema |-> r._compiled],
             schema |-> [r.schema EXCEPT !.required = old_required]]
       ELSE [ok |-> FALSE, err |-> r.err, val |-> NoVal, schema |-> r.schema]

\* _WithSubValidators._run, which Any does not override
_run(value, h) == Raise(Exception("NotImplementedError", ""), h)

(***************************************************************************)
(* Schema._compile: dispatch on the kind of the definition.  The values of *)
(* a dict definition are compiled depth-first, once, and the dict closure  *)
(* is built over the compiled items; the validator the compile hook of a   *)
(* composite returns does not depend on the Schema's required flag.        *)
(* schema_builder.py calls _compile but holds no definition of it; this    *)
(* one follows the design description.                                     *)
(***************************************************************************)
_compile(schema) ==
    IF schema.kind = "Object"
    THEN _compile_object(
            ObjectS([i \in DOMAIN schema.entries |->
                        [key |-> schema.entries[i].key,
                         val |-> _compile(schema.entries[i].val)]],
                    schema.cls))
    ELSE IF schema.kind = "dict"
    THEN _compile_dict([i \in DOMAIN schema.entries |->
                          [key |-> schema.entries[i].key,
                           val |-> _compile(schema.entries[i].val)]])
    ELSE IF schema.kind = "list"
    THEN _compile_list([i \in DOMAIN schema.entries |->
                          _compile(schema.entries[i])])
    ELSE IF schema.kind = "tuple"
    THEN _compile_tuple([i \in DOMAIN schema.entries |->
                           _compile(schema.entries[i])])
    ELSE IF schema.kind = "set"
    THEN _compile_set([i \in DOMAIN schema.entries |->
                         _compile(schema.entries[i])])
    ELSE IF schema.kind = "Any"
    THEN __voluptuous_compile__(schema, [required |-> FALSE]).val
    ELSE _compile_scalar(schema)

(***************************************************************************)
(* Set operations of validate_dict on keys.                                *)
(***************************************************************************)
\* the difference taken the wrong way round: set(schema) - set(value)
SetDifference_swapped(value, schema) ==
    {schema[i].key.schema : i \in DOMAIN schema} \ DOMAIN value.items

\* set(value) - set(schema): a data key is removed when some schema key has
\* its hash and compares equal to it
SetDifference(value, schema) ==
    {k \in DOMAIN value.items :
        ~ \E i \in DOMAIN schema :
            /\ MarkerHash(schema[i].key) = [key |-> k]
            /\ MarkerEq(schema[i].key, k)}

\* set.pop() returns an arbitrary element: the one `order` lists first
Pop(keys, order) ==
    LET first == CHOOSE i \in DOMAIN order :
                    /\ order[i] \in keys
                    /\ \A j \in DOMAIN order : order[j] \in keys => i <= j
    IN order[first]

(***************************************************************************)
(* Schema._compile_dict.validate_dict.  `this` is the Schema the closure   *)
(* was compiled by, `schema` the compiled items.  dict_loop is the loop    *)
(* over schema.items(), from item i on, with the accumulated out, errors   *)
(* and heap in acc.                                                        *)
(***************************************************************************)
RECURSIVE Apply(_, _, _, _, _, _)
RECURSIVE dict_loop(_, _, _, _, _, _, _)
RECURSIVE dict_loop_failfast(_, _, _, _, _, _, _)

\* one iteration of the loop: the item (key, key_schema)
dict_item(this, item, path, value, acc, order) ==
    LET key == item.key
        key_schema == item.val
        \* key.schema of a marker; a plain key k is kept as Plain(k), whose
        \* schema field is the key itself
        key_name == key.schema
    IN  IF key_name \in DOMAIN value.items
        THEN LET r == Apply(this, key_schema, Append(path, key_name),
                            value.items[key_name], acc.heap, order)
             IN IF r.ok
                THEN [acc EXCEPT !.out = Put(@, key_name, r.val),
                                 !.heap = r.heap]
                ELSE [acc EXCEPT !.errors = Append(@, r.err),
                                 !.heap = r.heap]
        ELSE IF IsRequired(key)
        THEN [acc EXCEPT !.errors = Append(@,
                Invalid("RequiredFieldInvalid",
                        "required key not provided @ data['"
                            \o key_name \o "']",
                        <<>>))]
        ELSE IF IsOptional(key) /\ key.default # UNDEFINED
        THEN LET d == CallDefault(key.default, acc.heap)
             IN [acc EXCEPT !.out = Put(@, key_name, d.val),
                            !.heap = d.heap]
        ELSE acc

\* the loop leaving at the first error
dict_loop_failfast(this, schema, i, path, value, acc, order) ==
    IF i > Len(schema) \/ acc.errors # <<>> THEN acc
    ELSE dict_loop_failfast(this, schema, i + 1, path, value,
                   dict_item(this, schema[i], path, value, acc, order), order)

dict_loop(this, schema, i, path, value, acc, order) ==
    IF i > Len(schema) THEN acc
    ELSE dict_loop(this, schema, i + 1, path, value,
                   dict_item(this, schema[i], path, value, acc, order), order)

\* the part of validate_dict after the loop, on what the loop accumulated
dict_finish(this, schema, value, acc, order) ==
    LET extra_keys == SetDifference(value, schema)
        errors ==
            IF this.extra = PREVENT_EXTRA /\ extra_keys # {}
            THEN Append(acc.errors,
                    Invalid("Invalid",
                            "extra keys not allowed @ data['"
                                \o Pop(extra_keys, order) \o "']",
                            <<>>))
            ELSE acc.errors
        out ==
            IF this.extra # PREVENT_EXTRA /\ this.extra = REMOVE_EXTRA
            THEN [k \in (DOMAIN acc.out) \cup extra_keys |->
                    IF k \in DOMAIN acc.out THEN acc.out[k]
                    ELSE value.items[k]]
            ELSE acc.out
    IN IF errors # <<>>
       THEN Raise(MultipleInvalid(errors), acc.heap)
       ELSE Return(DictV(out), acc.heap)

validate_dict(this, schema, path, value, h, order) ==
    IF value.kind # "dict"
    THEN Raise(Invalid("DictInvalid", "expected a dictionary", <<>>), h)
    ELSE dict_finish(this, schema, value,
                     dict_loop(this, schema, 1, path, value,
                               [out |-> EmptyItems, errors |-> <<>>,
                                heap |-> h],
                               order),
                     order)

(***************************************************************************)
(* Schema._compile_sequence.validate_sequence.  seq_item is the inner loop *)
(* `for validator in schema` on the item at index i, from validator j on;  *)
(* seq_loop the outer loop over enumerate(value), from position n on.      *)
(***************************************************************************)
RECURSIVE seq_item_reversed(_, _, _, _, _, _, _, _)
RECURSIVE seq_item(_, _, _, _, _, _, _, _)
RECURSIVE seq_loop(_, _, _, _, _, _, _)

\* the inner loop running over the validators from the last to the first
seq_item_reversed(this, schema, j, i, item, path, h, order) ==
    IF j > Len(schema)
    THEN Raise(Invalid("Invalid", "no valid element found for " \o Str(item),
                       <<>>), h)
    ELSE LET r == Apply(this, schema[Len(schema) + 1 - j], Append(path, i),
                        item, h, order)
         IN IF r.ok THEN r
            ELSE seq_item_reversed(this, schema, j + 1, i, item, path, r.heap,
                                   order)

seq_item(this, schema, j, i, item, path, h, order) ==
    IF j > Len(schema)
    THEN Raise(Invalid("Invalid", "no valid element found for " \o Str(item),
                       <<>>), h)
    ELSE LET r == Apply(this, schema[j], Append(path, i), item, h, order)
         IN IF r.ok THEN r
            ELSE seq_item(this, schema, j + 1, i, item, path, r.heap, order)

seq_loop(this, schema, items, n, path, acc, order) ==
    IF n > Len(items) THEN acc
    ELSE LET r == seq_item(this, schema, 1, n - 1, items[n], path, acc.heap,
                           order)
         IN seq_loop(this, schema, items, n + 1, path,
                     IF r.ok
                     THEN [acc EXCEPT !.result = Append(@, r.val),
                                      !.heap = r.heap]
                     ELSE [acc EXCEPT !.errors = Append(@, r.err),
                                      !.heap = r.heap],
                     order)

\* the items of a list or a tuple
Elems(value, h) == IF value.kind = "list" THEN h[value.id] ELSE value.elems

validate_sequence(this, schema, seq_type, path, value, h, order) ==
    IF ~ isinstance(value, seq_type)
    THEN Raise(Invalid("SequenceTypeInvalid", "expected a " \o seq_type.name,
                       <<>>), h)
    ELSE IF schema = <<>> THEN Return(value, h)
    ELSE
    LET acc == seq_loop(this, schema, Elems(value, h), 1, path,
                        [result |-> <<>>, errors |-> <<>>, heap |-> h], order)
    IN IF acc.errors # <<>>
       THEN Raise(MultipleInvalid(acc.errors), acc.heap)
       \* type(value)(result): a new list object, or a tuple
       ELSE IF value.kind = "list"
       THEN Return(ListRef(Len(acc.heap) + 1), Append(acc.heap, acc.result))
       ELSE Return(TupleV(acc.result), acc.heap)

(***************************************************************************)
(* Schema._compile_set.validate_set.  set_item is the inner loop on one    *)
(* item, from validator j on; set_loop the loop over the items not yet     *)
(* visited.  Every failing item appends the same error and the result is a *)
(* set, so the order in which a set yields its items is not observable.    *)
(***************************************************************************)
RECURSIVE set_item(_, _, _, _, _, _, _)
RECURSIVE set_loop(_, _, _, _, _, _)

set_item(this, schema, j, item, path, h, order) ==
    IF j > Len(schema)
    THEN Raise(Invalid("Invalid", "invalid value in set", <<>>), h)
    ELSE LET r == Apply(this, schema[j], path, item, h, order)
         IN IF r.ok THEN r
            ELSE set_item(this, schema, j + 1, item, path, r.heap, order)

set_loop(this, schema, rest, path, acc, order) ==
    IF rest = {} THEN acc
    ELSE LET item == CHOOSE x \in rest : TRUE
             r == set_item(this, schema, 1, item, path, acc.heap, order)
         IN set_loop(this, schema, rest \ {item}, path,
                     IF r.ok
                     THEN [acc EXCEPT !.result = @ \cup {r.val},
                                      !.heap = r.heap]
                     ELSE [acc EXCEPT !.errors = Append(@, r.err),
                                      !.heap = r.heap],
                     order)

validate_set(this, schema, path, value, h, order) ==
    IF ~ isinstance(value, TypeV("set"))
    THEN Raise(Invalid("Invalid", "expected a set", <<>>), h)
    ELSE
    LET acc == set_loop(this, schema, value.elems, path,
                        [result |-> {}, errors |-> <<>>, heap |-> h], order)
    IN IF acc.errors # <<>>
       THEN Raise(MultipleInvalid(acc.errors), acc.heap)
       ELSE Return(SetV(acc.result), acc.heap)

\* invoking a compiled validator on (path, value)
(***************************************************************************)
(* Schema._compile_object.validate_object.  An object of the heap is a      *)
(* record of its class and its attributes; a reference to it carries the    *)
(* class as its kind.  object_loop is the loop over schema.items(), from    *)
(* item i on; acc.exc is the exception, outside the Invalid family, that    *)
(* ended it.                                                                *)
(***************************************************************************)
ObjectV(cls, id) == [kind |-> cls, id |-> id]

RECURSIVE object_loop(_, _, _, _, _, _, _)

\* hasattr(value, key) raises TypeError unless key is a string
object_item(this, item, path, value, acc, order) ==
    LET key == item.key
        validator == item.val
    IN  IF IsMarker(key)
        THEN [acc EXCEPT !.exc =
                Exception("TypeError", "attribute name must be string")]
        ELSE IF key.schema \in DOMAIN acc.heap[value.id].attrs
        THEN LET r == Apply(this, validator, Append(path, key.schema),
                            acc.heap[value.id].attrs[key.schema], acc.heap,
                            order)
             IN IF r.ok
                THEN [acc EXCEPT !.heap =
                        [r.heap EXCEPT ![value.id].attrs =
                            Put(@, key.schema, r.val)]]
                ELSE [acc EXCEPT !.errors = Append(@, r.err),
                                 !.heap = r.heap]
        ELSE IF IsRequired(key)
        THEN [acc EXCEPT !.errors = Append(@,
                Invalid("RequiredFieldInvalid",
                        "object lacks required attribute '"
                            \o key.schema \o "'",
                        <<>>))]
        ELSE acc

object_loop(this, schema, i, path, value, acc, order) ==
    IF i > Len(schema) \/ acc.exc # NoErr THEN acc
    ELSE object_loop(this, schema, i + 1, path, value,
                     object_item(this, schema[i], path, value, acc, order),
                     order)

validate_object(this, schema, cls, path, value, h, order) ==
    IF ~ isinstance(value, cls)
    THEN Raise(Invalid("ObjectInvalid",
                       "expected an instance of " \o cls.name, <<>>), h)
    ELSE
    LET acc == object_loop(this, schema, 1, path, value,
                           [errors |-> <<>>, heap |-> h, exc |-> NoErr],
                           order)
    IN IF acc.exc # NoErr THEN Raise(acc.exc, acc.heap)
       ELSE IF acc.errors # <<>>
       THEN Raise(MultipleInvalid(acc.errors), acc.heap)
       ELSE Return(value, acc.heap)

Apply(this, validator, path, value, h, order) ==
    IF validator.fn = "validate_object"
    THEN validate_object(this, validator.schema, validator.cls, path, value,
                         h, order)
    ELSE IF validator.fn = "validate_dict"
    THEN validate_dict(this, validator.schema, path, value, h, order)
    ELSE IF validator.fn = "validate_sequence"
    THEN validate_sequence(this, validator.schema, validator.seq_type, path,
                           value, h, order)
    ELSE IF validator.fn = "validate_set"
    THEN validate_set(this, validator.schema, path, value, h, order)
    ELSE IF validator.fn = "_run" THEN _run(value, h)
    ELSE IF validator.fn = "validate_instance"
    THEN validate_instance(validator.schema, path, value, h)
    ELSE IF validator.fn = "validate_callable"
    THEN validate_callable(validator.schema, path, value, h)
    ELSE validate_value(validator.schema, path, value, h)

(***************************************************************************)
(* The Schema facade.                                                      *)
(***************************************************************************)
Schema__init__(schema, required, extra) ==
    [schema |-> schema, required |-> required, extra |-> extra,
     compiled |-> _compile(schema)]

\* Schema.__call__ without the except clauses
Schema__call__bare(this, data, h, order) ==
    Apply(this, this.compiled, <<>>, data, h, order)

Schema__call__(this, data, h, order) ==
    LET r == Apply(this, this.compiled, <<>>, data, h, order) IN
    IF r.ok THEN r
    ELSE IF r.err.cls = "MultipleInvalid" THEN r
    ELSE IF IsInvalid(r.err) THEN Raise(MultipleInvalid(<<r.err>>), r.heap)
    ELSE r

(***************************************************************************)
(* The schemas and the inputs of the model.                                *)
(***************************************************************************)
DataKeys == {"a", "b", "c"}

Item(key, val) == [key |-> key, val |-> val]

\* the nested definition {Required('a'): int, 'b': int}
NestedS ==
    DictS(<<Item(Required("a", UNDEFINED), TypeV("int")),
            Item(Plain("b"), TypeV("int"))>>)

ItemsA ==
    {Item(k, TypeV("int")) :
        k \in {Plain("a"), Required("a", UNDEFINED), Required("a", StrV("v")),
               Optional("a", UNDEFINED), Optional("a", NoneV), Remove("a")}}
        \cup {Item(Plain("a"), NestedS)}

ItemsB ==
    {Item(k, TypeV("int")) : k \in {Plain("b"), Required("b", UNDEFINED)}}

\* the definitions whose default is the factory `list`
ListDefs ==
    {DictS(<<Item(Optional("a", TypeV("list")), TypeV("int"))>>),
     DictS(<<Item(Optional("a", TypeV("list")), TypeV("int")),
             Item(Plain("b"), TypeV("int"))>>)}

\* the definitions whose keys form the exclusion or inclusion group g
ExclusiveDefs ==
    {DictS(<<Item(Exclusive("a", "g"), TypeV("int")),
             Item(Exclusive("b", "g"), TypeV("int"))>>)}
InclusiveDefs ==
    {DictS(<<Item(Inclusive("a", "g", UNDEFINED), TypeV("int")),
             Item(Inclusive("b", "g", UNDEFINED), TypeV("int"))>>)}

\* dict definitions over the keys a and b, in both insertion orders
DictDefs ==
    {DictS(<<>>)}
        \cup {DictS(<<x>>) : x \in ItemsA \cup ItemsB}
        \cup {DictS(<<x, y>>) : x \in ItemsA, y \in ItemsB}
        \cup {DictS(<<y, x>>) : x \in ItemsA, y \in ItemsB}
        \cup ListDefs \cup ExclusiveDefs \cup InclusiveDefs

ScalarDefs == {TypeV("int"), FnV("strict"), IntV(1)}

Definitions == DictDefs \cup ScalarDefs

\* the values of the extra argument: the three policies and another integer
Extras == {PREVENT_EXTRA, ALLOW_EXTRA, REMOVE_EXTRA, 3}

Absent == [kind |-> "absent"]

MkDict(a, b, c) ==
    LET given == [k \in DataKeys |->
                    IF k = "a" THEN a ELSE IF k = "b" THEN b ELSE c]
    IN DictV([k \in {x \in DataKeys : given[x] # Absent} |-> given[k]])

NestedData ==
    {MkDict(IntV(1), IntV(1), Absent),
     MkDict(StrV("x"), StrV("x"), Absent),
     MkDict(Absent, StrV("x"), IntV(1))}

DictData ==
    {MkDict(a, b, c) :
        a \in {Absent, IntV(1), StrV("x")},
        b \in {Absent, IntV(1), StrV("x")},
        c \in {Absent, IntV(1)}}
        \cup {MkDict(a, b, Absent) : a \in NestedData, b \in {Absent, StrV("x")}}

ScalarData == {IntV(1), IntV(0), StrV("x"), NoneV}

Data == DictData \cup ScalarData

\* the orders in which set.pop() may hand out keys: any key may come first
Orders == {<<"a", "b", "c">>, <<"b", "c", "a">>, <<"c", "a", "b">>}

\* the list objects a value refers to
RECURSIVE ListIds(_)
ListIds(v) ==
    IF v.kind = "list" THEN {v.id}
    ELSE IF v.kind = "dict"
    THEN UNION {ListIds(v.items[k]) : k \in DOMAIN v.items}
    ELSE {}

\* the number of items in the lists of the heap
RECURSIVE Appended(_)
Appended(h) == IF h = <<>> THEN 0 ELSE Len(Head(h)) + Appended(Tail(h))

Outcome(r) == [ok |-> r.ok, val |-> r.val, err |-> r.err]

(***************************************************************************)
(* The state machine: one Schema, constructed in Init with required left   *)
(* at its default, the heap of list objects, the last validation call and  *)
(* the list objects each earlier call handed to its caller.                *)
(***************************************************************************)
NoCall == [called |-> FALSE]

Init ==
    /\ self \in {Schema__init__(d, FALSE, extra) :
                    d \in Definitions, extra \in Extras}
    /\ heap = <<>>
    /\ last = NoCall
    /\ outputs = <<>>
    /\ frames = <<>>

\* schema(data): `root` is what the compiled root validator did, `res` what
\* the caller of Schema.__call__ observes, `pre` the heap the call started in
\* and `snap` the contents, at the return, of the lists the output refers to
Call(data, order) ==
    /\ Len(heap) < MaxHeap
    /\ Len(outputs) < MaxHeap
    /\ LET root == Apply(self, self.compiled, <<>>, data, heap, order)
           res == Schema__call__(self, data, heap, order)
           ids == IF res.ok THEN ListIds(res.val) ELSE {}
       IN /\ heap' = res.heap
          /\ last' = [called |-> TRUE, data |-> data, pre |-> heap,
                      root |-> Outcome(root), res |-> Outcome(res),
                      snap |-> [id \in ids |-> res.heap[id]]]
          /\ outputs' = IF ids = {} THEN outputs ELSE Append(outputs, ids)
    /\ UNCHANGED <<self, frames>>

\* the caller appends to a list it received from an earlier call
Mutate(id) ==
    /\ \E i \in DOMAIN outputs : id \in outputs[i]
    /\ Appended(heap) < MaxAppends
    /\ heap' = [heap EXCEPT ![id] = Append(@, IntV(1))]
    /\ UNCHANGED <<self, last, outputs, frames>>

Next ==
    \/ \E data \in Data, order \in Orders : Call(data, order)
    \/ \E id \in DOMAIN heap : Mutate(id)

Spec == Init /\ [][Next]_vars

(***************************************************************************)
(* The second state machine: one Schema over a list, tuple, set, dict or   *)
(* scalar definition.  The caller first builds a list, or none, and then   *)
(* validates lists of the heap, tuples, sets and scalars.                  *)
(***************************************************************************)
\* the definition {Optional('a', default=list): int}
FillS == DictS(<<Item(Optional("a", TypeV("list")), TypeV("int"))>>)

SeqDefs ==
    {ListS(<<>>), ListS(<<TypeV("int")>>),
     ListS(<<FnV("strict"), FnV("zero")>>),
     ListS(<<FnV("zero"), FnV("strict")>>),
     ListS(<<FillS, DictS(<<>>)>>), ListS(<<DictS(<<>>), FillS>>),
     TupleS(<<>>), TupleS(<<TypeV("int")>>),
     TupleS(<<FnV("strict"), FnV("zero")>>),
     SetS(<<>>), SetS(<<TypeV("int")>>), SetS(<<FnV("zero"), IntV(1)>>),
     DictS(<<>>), FillS, AnyS(<<TypeV("int")>>),
     TypeV("int"), FnV("strict"), IntV(1)}

ScalarElems == {IntV(1), IntV(0), StrV("x")}

\* the sequences over S of length at most n
SeqsUpTo(S, n) == UNION {[1..k -> S] : k \in 0..n}

ListContents ==
    SeqsUpTo(ScalarElems, MaxLen)
        \cup {<<DictV(EmptyItems)>>, <<DictV(EmptyItems), DictV(EmptyItems)>>,
              <<DictV(EmptyItems), StrV("x")>>}

Tuples ==
    {TupleV(<<>>), TupleV(<<IntV(1)>>), TupleV(<<IntV(0), IntV(1)>>),
     TupleV(<<StrV("x"), IntV(1)>>), TupleV(<<StrV("x"), StrV("x")>>)}

Sets == {SetV(S) : S \in SUBSET {IntV(1), StrV("x")}}

SeqData(h) ==
    {ListRef(id) : id \in DOMAIN h} \cup Tuples \cup Sets
        \cup {IntV(1), StrV("x"), DictV(EmptyItems)}

SeqInit ==
    /\ self \in {Schema__init__(d, FALSE, PREVENT_EXTRA) : d \in SeqDefs}
    /\ heap = <<>>
    /\ last = NoCall
    /\ outputs = <<>>
    /\ frames = <<>>

\* the caller builds the list it is going to validate
MakeList(contents) ==
    /\ heap = <<>>
    /\ ~ last.called
    /\ heap' = <<contents>>
    /\ UNCHANGED <<self, last, outputs, frames>>

SeqNext ==
    \/ \E contents \in ListContents : MakeList(contents)
    \/ \E data \in SeqData(heap) : Call(data, <<"a", "b", "c">>)

SeqSpec == SeqInit /\ [][SeqNext]_vars

(***************************************************************************)
(* The third state machine: Schema.extend.  A dict definition is an object *)
(* of the heap, kept by its items, and a Schema refers to it; `self` is    *)
(* the Schema constructed first, `outputs` the Schemas extend returned.    *)
(***************************************************************************)
DictRef(id) == [kind |-> "dict", id |-> id]
BoolV(b) == [kind |-> "bool", v |-> b]

\* the definition a Schema's schema attribute refers to
Deref(v, h) ==
    IF v.kind = "dict" /\ "id" \in DOMAIN v THEN DictS(h[v.id]) ELSE v

\* Schema(schema, required, extra) on a definition that may be a dict object
SchemaOn(schema, required, extra, h) ==
    [Schema__init__(Deref(schema, h), required, extra) EXCEPT !.schema = schema]

\* isinstance(x, Schema): the values of the model carry a kind, a Schema not
IsSchema(x) == "kind" \notin DOMAIN x

\* two keys are the same dict key: equal hashes and k1 == k2
SameKey(k1, k2) == MarkerHash(k1) = MarkerHash(k2) /\ MarkerEq(k1, k2.schema)

\* the position of key in the items d, or 0
Find(d, key) ==
    IF \E i \in DOMAIN d : SameKey(d[i].key, key)
    THEN CHOOSE i \in DOMAIN d : SameKey(d[i].key, key)
    ELSE 0

\* an update that leaves the value of a key it finds in d as it is
RECURSIVE dict_update_keep(_, _)
dict_update_keep(d, other) ==
    IF other = <<>> THEN d
    ELSE dict_update_keep(
            IF Find(d, Head(other).key) # 0 THEN d ELSE Append(d, Head(other)),
            Tail(other))

\* d.update(other): a key d holds keeps its place and its key object and
\* takes the new value; any other key is added at the end
RECURSIVE dict_update(_, _)
dict_update(d, other) ==
    IF other = <<>> THEN d
    ELSE LET i == Find(d, Head(other).key)
         IN dict_update(
                IF i # 0 THEN [d EXCEPT ![i].val = Head(other).val]
                ELSE Append(d, Head(other)),
                Tail(other))

\* extend without the copy: the receiver's own dict is updated and passed on
extend_inplace(this, schema, required, extra, h) ==
    IF this.schema.kind # "dict" \/ schema.kind # "dict"
    THEN Raise(Exception("ValueError",
                         "Both schemas must be dictionary-based"), h)
    ELSE
    LET h1 == [h EXCEPT ![this.schema.id] = dict_update(@, h[schema.id])]
    IN Return(SchemaOn(this.schema,
                       IF required = NoneV THEN this.required ELSE required.v,
                       IF extra = NoneV THEN this.extra ELSE extra.v,
                       h1),
              h1)

\* Schema.extend(schema, required, extra)
extend(this, schema, required, extra, h) ==
    IF this.schema.kind # "dict" \/ schema.kind # "dict"
    THEN Raise(Exception("ValueError",
                         "Both schemas must be dictionary-based"), h)
    ELSE
    LET new_schema == DictRef(Len(h) + 1)
        \* new_schema = self.schema.copy(); new_schema.update(schema)
        h1 == Append(h, dict_update(h[this.schema.id], h[schema.id]))
    IN Return(SchemaOn(new_schema,
                       IF required = NoneV THEN this.required ELSE required.v,
                       IF extra = NoneV THEN this.extra ELSE extra.v,
                       h1),
              h1)

\* the dicts the receiver is constructed on, and those passed to extend
SelfDicts ==
    {<<Item(Plain("a"), TypeV("int"))>>,
     <<Item(Required("a", UNDEFINED), TypeV("int")),
       Item(Plain("b"), TypeV("int"))>>}
ArgDicts ==
    {<<>>,
     <<Item(Plain("a"), TypeV("str")), Item(Optional("c", UNDEFINED), TypeV("int"))>>}

\* the required and extra arguments of extend
RequiredArgs == {NoneV, BoolV(TRUE)}
ExtraArgs == {NoneV, IntV(ALLOW_EXTRA)}

ExtInit ==
    /\ \E d \in SelfDicts, a \in ArgDicts : heap = <<d, a>>
    /\ \E schema \in {DictRef(1), TypeV("int")}, required \in BOOLEAN :
            self = SchemaOn(schema, required, PREVENT_EXTRA, heap)
    /\ last = NoCall
    /\ outputs = <<>>
    /\ frames = <<>>

\* the Schemas of the state
Schemas == {self} \cup {outputs[i] : i \in DOMAIN outputs}

\* this.extend(schema, required, extra)
Extend(this, schema, required, extra) ==
    /\ Len(outputs) < MaxExtends
    /\ LET res == extend(this, schema, required, extra, heap)
       IN /\ heap' = res.heap
          /\ outputs' = IF res.ok THEN Append(outputs, res.val) ELSE outputs
          /\ last' = [called |-> FALSE, op |-> "extend", this |-> this,
                      schema |-> schema, required |-> required,
                      extra |-> extra, pre |-> heap, res |-> Outcome(res)]
    /\ UNCHANGED <<self, frames>>

ExtNext ==
    \E this \in Schemas,
       schema \in {DictRef(id) : id \in DOMAIN heap} \cup {IntV(1)},
       required \in RequiredArgs, extra \in ExtraArgs :
        Extend(this, schema, required, extra)

ExtSpec == ExtInit /\ [][ExtNext]_vars

(***************************************************************************)
(* The fourth state machine: Schema.__eq__ and Schema.__ne__ on the        *)
(* Schemas `self` and outputs[1], constructed on the dicts of the heap or  *)
(* on scalars, and on values that are no Schema.                           *)
(***************************************************************************)
\* a == b for two definitions: dicts are equal when they hold the same keys
\* with equal values, in any order; anything else is equal to itself
RECURSIVE PyEq(_, _)
PyEq(a, b) ==
    IF a.kind = "dict" /\ b.kind = "dict"
    THEN /\ Len(a.entries) = Len(b.entries)
         /\ \A i \in DOMAIN a.entries :
               \E j \in DOMAIN b.entries :
                   /\ SameKey(a.entries[i].key, b.entries[j].key)
                   /\ PyEq(a.entries[i].val, b.entries[j].val)
    ELSE a = b

\* an __eq__ that compares the settings as well
Schema__eq__settings(this, other, h) ==
    IF ~ IsSchema(other) THEN FALSE
    ELSE /\ PyEq(Deref(other.schema, h), Deref(this.schema, h))
         /\ other.required = this.required
         /\ other.extra = this.extra

Schema__eq__(this, other, h) ==
    IF ~ IsSchema(other) THEN FALSE
    ELSE PyEq(Deref(other.schema, h), Deref(this.schema, h))

\* an __ne__ that compares the definitions by identity
Schema__ne__identity(this, other, h) ==
    IF ~ IsSchema(other) THEN TRUE ELSE other.schema # this.schema

Schema__ne__(this, other, h) == ~ Schema__eq__(this, other, h)

EqDicts ==
    {<<Item(Plain("a"), TypeV("int")), Item(Plain("b"), TypeV("int"))>>,
     <<Item(Plain("b"), TypeV("int")), Item(Plain("a"), TypeV("int"))>>,
     <<Item(Required("a", UNDEFINED), TypeV("int")),
       Item(Plain("b"), TypeV("int"))>>,
     <<Item(Plain("a"), TypeV("str")), Item(Plain("b"), TypeV("int"))>>,
     <<Item(Plain("a"), TypeV("int"))>>}

EqInit ==
    /\ \E d1 \in EqDicts, d2 \in EqDicts : heap = <<d1, d2>>
    /\ \E schema \in {DictRef(1), TypeV("int")} :
            self = SchemaOn(schema, FALSE, PREVENT_EXTRA, heap)
    /\ \E schema \in {DictRef(1), DictRef(2), TypeV("int"), IntV(1)},
          required \in BOOLEAN, extra \in {PREVENT_EXTRA, ALLOW_EXTRA} :
            outputs = <<SchemaOn(schema, required, extra, heap)>>
    /\ frames = <<>>
    /\ last = NoCall

\* the values a Schema is compared with: Schemas, a dict, an int, None
Others == Schemas \cup {DictRef(1), IntV(1), NoneV}

\* this == other
Eq(this, other) ==
    /\ last' = [called |-> FALSE, op |-> "eq", this |-> this, other |-> other,
                res |-> Schema__eq__(this, other, heap)]
    /\ UNCHANGED <<self, heap, outputs, frames>>

\* this != other
Ne(this, other) ==
    /\ last' = [called |-> FALSE, op |-> "ne", this |-> this, other |-> other,
                res |-> Schema__ne__(this, other, heap)]
    /\ UNCHANGED <<self, heap, outputs, frames>>

EqNext ==
    \/ \E this \in Schemas, other \in Others : Eq(this, other)
    \/ \E this \in Schemas, other \in Others : Ne(this, other)

EqSpec == EqInit /\ [][EqNext]_vars

TypeOK ==
    /\ self.extra \in Extras
    /\ Len(heap) <= MaxHeap + 1
    /\ last.called \in BOOLEAN

(***************************************************************************)
(* Vocabulary of the properties.                                           *)
(***************************************************************************)
\* the last call validated a dict against a dict definition
DictCall ==
    /\ last.called
    /\ self.schema.kind = "dict"
    /\ last.data.kind = "dict"

Entries == self.schema.entries
DataItems == last.data.items
Errors == last.res.err.errors
Out == last.res.val.items

\* the underlying keys of the definition
SchemaKeyNames == {Entries[i].key.schema : i \in DOMAIN Entries}

\* the input keys outside the definition
OutsideKeys == (DOMAIN DataItems) \ SchemaKeyNames

\* what the validator of item i does, alone, on the input's value for its key
KeyResult(i, order) ==
    Apply(self, self.compiled.schema[i].val, <<Entries[i].key.schema>>,
          DataItems[Entries[i].key.schema], <<>>, order)

\* the items whose key is in the input and whose value fails validation
FailingKeys ==
    {i \in DOMAIN Entries :
        /\ Entries[i].key.schema \in DOMAIN DataItems
        /\ \A order \in Orders : ~ KeyResult(i, order).ok}

\* the items whose marker carries a default and whose key the input lacks
HasDefault(key) == key.marker \in {"Required", "Optional"}
AbsentWith(markers) ==
    {i \in DOMAIN Entries :
        /\ Entries[i].key.marker \in markers
        /\ Entries[i].key.schema \notin DOMAIN DataItems}

IsExtraKeysError(e) ==
    \E k \in DataKeys : e.msg = "extra keys not allowed @ data['" \o k \o "']"

IsRequiredErrorFor(e, k) ==
    /\ e.cls = "RequiredFieldInvalid"
    /\ e.msg = "required key not provided @ data['" \o k \o "']"

(***************************************************************************)
(* C1.  Schema.__call__ returns a value or raises MultipleInvalid: a       *)
(* single Invalid e raised by the root validator reaches the caller as     *)
(* MultipleInvalid([e]), a MultipleInvalid of the root validator reaches   *)
(* it unchanged, and no bare Invalid escapes.                              *)
(***************************************************************************)
C1_TopLevelAggregate ==
    last.called =>
        /\ last.res.ok \/ last.res.err.cls = "MultipleInvalid"
        /\ last.root.ok => last.res = last.root
        /\ (~ last.root.ok /\ last.root.err.cls = "MultipleInvalid")
                => last.res = last.root
        /\ (~ last.root.ok /\ last.root.err.cls # "MultipleInvalid")
                => /\ ~ last.res.ok
                   /\ last.res.err.cls = "MultipleInvalid"
                   /\ last.res.err.errors = <<last.root.err>>

C1_Witness ==
    /\ last.called
    /\ ~ last.root.ok
    /\ last.root.err.cls \in {"Invalid", "DictInvalid", "RangeInvalid"}
    /\ last.res.err.errors = <<last.root.err>>

(***************************************************************************)
(* C2.  Dict validation is not fail-fast: when k keys of the definition    *)
(* are in the input with values that fail validation, the call fails and   *)
(* the aggregate holds at least k entries that are errors of those keys.   *)
(***************************************************************************)
C2_NotFailFast ==
    (DictCall /\ FailingKeys # {}) =>
        /\ ~ last.res.ok
        /\ Cardinality({j \in DOMAIN Errors :
                \E i \in FailingKeys, order \in Orders :
                    Errors[j] = KeyResult(i, order).err})
             >= Cardinality(FailingKeys)

C2_Witness ==
    /\ DictCall
    /\ Cardinality(FailingKeys) >= 2
    /\ Len(Errors) >= 2

(***************************************************************************)
(* C3.  A key marked Required, without default, that the input lacks       *)
(* yields exactly one RequiredFieldInvalid in the aggregate whose path is  *)
(* [key].                                                                  *)
(***************************************************************************)
C3_RequiredPath ==
    DictCall =>
        \A i \in AbsentWith({"Required"}) :
            Entries[i].key.default.default = UNDEFINED =>
                /\ ~ last.res.ok
                /\ Cardinality({j \in DOMAIN Errors :
                        /\ Errors[j].cls = "RequiredFieldInvalid"
                        /\ Errors[j].path = <<Entries[i].key.schema>>}) = 1

(***************************************************************************)
(* C4.  A Required or Optional key with a configured default that the      *)
(* input lacks is stored in the output with the materialized default, and  *)
(* no error is reported for it.                                            *)
(***************************************************************************)
\* v is what materializing the configured default d gives
Materialized(v, d) ==
    IF callable(d)
    THEN v.kind = "list" /\ last.snap[v.id] = <<>>
    ELSE v = d

C4_DefaultFilled ==
    DictCall =>
        \A i \in AbsentWith({"Required", "Optional"}) :
            LET k == Entries[i].key.schema
                d == Entries[i].key.default.default
            IN d # UNDEFINED =>
                /\ last.res.ok =>
                      k \in DOMAIN Out /\ Materialized(Out[k], d)
                /\ ~ last.res.ok =>
                      \A j \in DOMAIN Errors : ~ IsRequiredErrorFor(Errors[j], k)

(***************************************************************************)
(* C5.  An Optional key without configured default that the input lacks    *)
(* does not appear in the output; a configured default of None is filled.  *)
(***************************************************************************)
C5_NoDefaultNoFill ==
    (DictCall /\ last.res.ok) =>
        \A i \in AbsentWith({"Optional"}) :
            LET k == Entries[i].key.schema
                d == Entries[i].key.default.default
            IN /\ d = UNDEFINED => k \notin DOMAIN Out
               /\ d = NoneV => k \in DOMAIN Out /\ Out[k] = NoneV

(***************************************************************************)
(* C6.  A default factory is invoked afresh on every fill: an absent       *)
(* Optional key with default=list is in the output with a list that did    *)
(* not exist before the call and is empty, and no two calls hand out the   *)
(* same list, whatever the callers did to the lists they received.         *)
(***************************************************************************)
C6_FreshDefaults ==
    /\ \A i, j \in DOMAIN outputs : i # j => outputs[i] \cap outputs[j] = {}
    /\ (DictCall /\ last.res.ok) =>
          \A i \in AbsentWith({"Optional"}) :
              LET k == Entries[i].key.schema IN
              callable(Entries[i].key.default.default) =>
                  /\ k \in DOMAIN Out
                  /\ Out[k].kind = "list"
                  /\ Out[k].id > Len(last.pre)
                  /\ last.snap[Out[k].id] = <<>>

C6_Witness ==
    /\ DictCall /\ last.res.ok
    /\ Len(outputs) >= 2
    /\ \E id \in outputs[1] : id \in DOMAIN last.pre /\ last.pre[id] # <<>>
    /\ \E i \in AbsentWith({"Optional"}) :
          /\ callable(Entries[i].key.default.default)
          /\ Out[Entries[i].key.schema].id \in outputs[Len(outputs)]

C8_AllowExtra ==
    (DictCall /\ self.extra = ALLOW_EXTRA) =>
        /\ ~ last.res.ok =>
              \A j \in DOMAIN Errors : ~ IsExtraKeysError(Errors[j])
        /\ last.res.ok =>
              \A k \in OutsideKeys : k \in DOMAIN Out /\ Out[k] = DataItems[k]

(***************************************************************************)
(* C9.  Under REMOVE_EXTRA no call fails because of extra keys, and the    *)
(* keys of the output are keys of the definition.                          *)
(***************************************************************************)
C9_RemoveExtra ==
    (DictCall /\ self.extra = REMOVE_EXTRA) =>
        /\ ~ last.res.ok =>
              \A j \in DOMAIN Errors : ~ IsExtraKeysError(Errors[j])
        /\ last.res.ok => (DOMAIN Out) \subseteq SchemaKeyNames

(***************************************************************************)
(* C10.  With an extra value other than 0, 1 and 2 dict validation behaves *)
(* as with PREVENT_EXTRA: an input with a key outside the definition is    *)
(* rejected with an extra-keys error, and every outcome is the outcome     *)
(* under extra=PREVENT_EXTRA.                                              *)
(***************************************************************************)
C10_OtherExtraPrevents ==
    (DictCall /\ self.extra \notin {PREVENT_EXTRA, ALLOW_EXTRA, REMOVE_EXTRA}) =>
        /\ OutsideKeys # {} =>
              /\ ~ last.res.ok
              /\ \E j \in DOMAIN Errors : IsExtraKeysError(Errors[j])
        /\ \E order \in Orders :
              last.res = Outcome(Schema__call__(
                            [self EXCEPT !.extra = PREVENT_EXTRA],
                            last.data, last.pre, order))

(***************************************************************************)
(* C11 (Exclusive groups).  For a definition whose keys are Exclusive      *)
(* markers of one group g: an input holding at most one key of the group,  *)
(* with valid values and no other key, passes; an input holding two or     *)
(* more keys of the group, all with valid values, fails, and exactly one   *)
(* of the errors is the group's, its path the segment <g>.                 *)
(***************************************************************************)
ExclusiveCall ==
    /\ DictCall
    /\ Entries # <<>>
    /\ \A i \in DOMAIN Entries : Entries[i].key.marker = "Exclusive"

\* the keys of the definition that the input holds
PresentKeys == SchemaKeyNames \cap DOMAIN DataItems

GroupErrors(g) ==
    {i \in DOMAIN Errors : Errors[i].path = <<VirtualPathComponent(g)>>}

C11_ExclusiveGroups ==
    ExclusiveCall =>
        LET g == Entries[1].key.group_of_exclusion IN
        /\ (Cardinality(PresentKeys) <= 1 /\ FailingKeys = {} /\ OutsideKeys = {})
                => last.res.ok
        /\ (Cardinality(PresentKeys) >= 2 /\ FailingKeys = {})
                => ~ last.res.ok /\ Cardinality(GroupErrors(g)) = 1

(***************************************************************************)
(* C12 (Inclusive groups).  For a definition whose keys are Inclusive      *)
(* markers of one group g: an input holding none or all of the keys, with  *)
(* valid values and no other key, passes; an input holding some but not    *)
(* all of them, with valid values, fails, and exactly one of the errors is *)
(* addressed to the group.                                                 *)
(***************************************************************************)
InclusiveCall ==
    /\ DictCall
    /\ Entries # <<>>
    /\ \A i \in DOMAIN Entries : Entries[i].key.marker = "Inclusive"

C12_InclusiveGroups ==
    InclusiveCall =>
        LET g == Entries[1].key.group_of_inclusion IN
        /\ (PresentKeys \in {{}, SchemaKeyNames} /\ FailingKeys = {}
                /\ OutsideKeys = {})
                => last.res.ok
        /\ (PresentKeys \notin {{}, SchemaKeyNames} /\ FailingKeys = {})
                => ~ last.res.ok /\ Cardinality(GroupErrors(g)) = 1

(***************************************************************************)
(* Vocabulary of the properties of list and tuple validation.              *)
(***************************************************************************)
\* the last call validated a list against a non-empty list definition, or a
\* tuple against a non-empty tuple definition
SeqCall ==
    /\ last.called
    /\ self.schema.kind \in {"list", "tuple"}
    /\ self.schema.entries # <<>>
    /\ last.data.kind = self.schema.kind

\* the elements of the input, and the compiled validators of the entries
InputElems == Elems(last.data, last.pre)
Validators == self.compiled.schema

\* what validator j does, alone, on the element at position n (index n - 1)
Try(j, n) ==
    Apply(self, Validators[j], <<n - 1>>, InputElems[n], <<>>, <<"a", "b", "c">>)

\* the positions of the elements that no validator accepts
FailingElems ==
    {n \in DOMAIN InputElems : \A j \in DOMAIN Validators : ~ Try(j, n).ok}

(***************************************************************************)
(* C13.  For a non-empty list or tuple definition, the call fails exactly  *)
(* when some element is accepted by no entry; the aggregate then holds one *)
(* error per failing element, and for each failing index i exactly one     *)
(* error whose path is [i].                                                *)
(***************************************************************************)
C13_ElementErrors ==
    SeqCall =>
        /\ last.res.ok <=> FailingElems = {}
        /\ FailingElems # {} =>
              /\ Len(Errors) = Cardinality(FailingElems)
              /\ \A n \in FailingElems :
                    Cardinality({e \in DOMAIN Errors :
                                    Errors[e].path = <<n - 1>>}) = 1

(***************************************************************************)
(* C14 (first match wins).  For a non-empty list or tuple definition and a *)
(* call that succeeds: every output element is the result of the first     *)
(* validator, in declared order, that accepts the input element, and the   *)
(* call invoked no validator after it: the list objects the call created   *)
(* are those the validators up to the first accepting one create, and the  *)
(* output list itself.                                                     *)
(***************************************************************************)
\* the first validator that accepts the element at position n
First(n) ==
    CHOOSE j \in DOMAIN Validators :
        Try(j, n).ok /\ \A k \in 1..(j - 1) : ~ Try(k, n).ok

\* a value with the lists its items refer to replaced by their contents
Contents(v, h) ==
    IF v.kind = "dict"
    THEN DictV([k \in DOMAIN v.items |->
                  IF v.items[k].kind = "list" THEN h[v.items[k].id]
                  ELSE v.items[k]])
    ELSE v

\* the sum of f over 1..n
RECURSIVE Sum(_, _)
Sum(f, n) == IF n = 0 THEN 0 ELSE f[n] + Sum(f, n - 1)

\* the number of list objects validators 1..j create on the element at n
Created(j, n) == Sum([k \in 1..j |-> Len(Try(k, n).heap)], j)

C14_FirstMatchWins ==
    (SeqCall /\ last.res.ok) =>
        LET out == Elems(last.res.val, heap) IN
        /\ Len(out) = Len(InputElems)
        /\ \A n \in DOMAIN InputElems :
              Contents(out[n], heap)
                  = Contents(Try(First(n), n).val, Try(First(n), n).heap)
        /\ Len(heap) - Len(last.pre)
              = Sum([n \in DOMAIN InputElems |-> Created(First(n), n)],
                    Len(InputElems))
                  + (IF last.data.kind = "list" THEN 1 ELSE 0)

\* an element that a later validator accepts too, with another result
C14_Witness ==
    /\ SeqCall
    /\ last.res.ok
    /\ \E n \in DOMAIN InputElems : \E j \in DOMAIN Validators :
          /\ j > First(n)
          /\ Try(j, n).ok
          /\ Try(j, n).val # Try(First(n), n).val

(***************************************************************************)
(* C15 (empty definitions are wildcards).  With the definition [], () or   *)
(* set(), every list, tuple or set respectively passes and is returned     *)
(* unchanged: the same value, with the contents it had.                    *)
(***************************************************************************)
C15_EmptyIsWildcard ==
    (/\ last.called
     /\ self.schema.kind \in {"list", "tuple", "set"}
     /\ self.schema.entries = <<>>
     /\ last.data.kind = self.schema.kind)
        => /\ last.res.ok
           /\ last.res.val = last.data
           /\ last.data.kind = "list"
                 => heap[last.data.id] = last.pre[last.data.id]

(***************************************************************************)
(* C16 (compile once, dispatch by kind).  The validator a Schema holds is  *)
(* the one its definition's kind selects: a dict the dict validator, a     *)
(* list or tuple the sequence validator of that type, a set the set        *)
(* validator, a composite what its compile hook returns, a type the        *)
(* isinstance check, another callable the invoking validator, anything     *)
(* else the equality check.  It is compiled at construction and never      *)
(* again, and the Schema can be called: a call returns a value or raises   *)
(* an Invalid.                                                             *)
(***************************************************************************)
Selected(schema) ==
    IF schema.kind = "dict" THEN "validate_dict"
    ELSE IF schema.kind \in {"list", "tuple"} THEN "validate_sequence"
    ELSE IF schema.kind = "set" THEN "validate_set"
    ELSE IF schema.kind = "Any" THEN "_run"
    ELSE IF schema.kind = "type" THEN "validate_instance"
    ELSE IF schema.kind = "function" THEN "validate_callable"
    ELSE "validate_value"

C16_CompileDispatch ==
    /\ self.compiled.fn = Selected(self.schema)
    /\ self.schema.kind \in {"list", "tuple"}
          => self.compiled.seq_type = TypeV(self.schema.kind)
    /\ self.compiled = _compile(self.schema)
    /\ last.called => last.res.ok \/ IsInvalid(last.res.err)

(***************************************************************************)
(* Vocabulary of the properties of extend.                                 *)
(***************************************************************************)
ExtendCall == "op" \in DOMAIN last /\ last.op = "extend"

\* the items of the receiver's and of the argument's dict before the call,
\* and of the dict of the Schema the call returned
SelfItems == last.pre[last.this.schema.id]
ArgItems == last.pre[last.schema.id]
NewItems == heap[last.res.val.schema.id]

BothDicts == last.this.schema.kind = "dict" /\ last.schema.kind = "dict"

KeysOf(d) == {MarkerHash(d[i].key) : i \in DOMAIN d}

(***************************************************************************)
(* C17.  extend returns a Schema exactly when the receiver's definition    *)
(* and the argument are dicts, and fails otherwise.  The keys of the new   *)
(* definition are those of the two dicts, each once; a key of the argument *)
(* has the argument's value, any other key the receiver's.  required and   *)
(* extra are the receiver's unless the argument given is not None.         *)
(***************************************************************************)
C17_ExtendMerges ==
    ExtendCall =>
        /\ last.res.ok <=> BothDicts
        /\ ~ last.res.ok => last.res.err.cls = "ValueError"
        /\ last.res.ok =>
              /\ IsSchema(last.res.val)
              /\ KeysOf(NewItems) = KeysOf(SelfItems) \cup KeysOf(ArgItems)
              /\ Cardinality(KeysOf(NewItems)) = Len(NewItems)
              /\ \A i \in DOMAIN NewItems :
                    LET key == NewItems[i].key IN
                    IF Find(ArgItems, key) # 0
                    THEN NewItems[i].val = ArgItems[Find(ArgItems, key)].val
                    ELSE NewItems[i].val = SelfItems[Find(SelfItems, key)].val
              /\ last.res.val.required =
                    IF last.required = NoneV THEN last.this.required
                    ELSE last.required.v
              /\ last.res.val.extra =
                    IF last.extra = NoneV THEN last.this.extra
                    ELSE last.extra.v

\* a key of both dicts with two values, and both settings overridden
C17_Witness ==
    /\ ExtendCall
    /\ last.res.ok
    /\ \E i \in DOMAIN SelfItems :
          /\ Find(ArgItems, SelfItems[i].key) # 0
          /\ ArgItems[Find(ArgItems, SelfItems[i].key)].val # SelfItems[i].val
    /\ last.required # NoneV /\ last.required.v # last.this.required
    /\ last.extra # NoneV /\ last.extra.v # last.this.extra

(***************************************************************************)
(* C18.  An extend call changes no dict that existed before it (the        *)
(* receiver's definition and the argument among them) and leaves the       *)
(* receiver as it was; the definition of the Schema it returns is a new    *)
(* object, neither the receiver's dict nor the argument.                   *)
(***************************************************************************)
C18_ExtendPure ==
    ExtendCall =>
        /\ \A id \in DOMAIN last.pre : heap[id] = last.pre[id]
        /\ last.this \in Schemas
        /\ last.res.ok =>
              /\ last.res.val.schema.id \notin DOMAIN last.pre
              /\ last.res.val.schema # last.this.schema
              /\ last.res.val.schema # last.schema

\* a second extend call, on a Schema or with a dict of the first, that adds
\* or replaces an item
C18_Witness ==
    /\ ExtendCall
    /\ last.res.ok
    /\ Len(outputs) >= 2
    /\ NewItems # SelfItems
    /\ \/ last.this # self
       \/ last.schema.id > 2

(***************************************************************************)
(* C19.  s1 == s2 holds exactly when the definitions of the two Schemas    *)
(* are equal, whatever their required and extra; s1 != s2 is the negation  *)
(* of s1 == s2; a Schema is equal to no value that is not a Schema.        *)
(***************************************************************************)
\* s1.schema == s2.schema
SameDefinition(s1, s2) == PyEq(Deref(s1.schema, heap), Deref(s2.schema, heap))

Compared == "op" \in DOMAIN last /\ last.op \in {"eq", "ne"}

C19_EqualityByDefinition ==
    Compared =>
        LET equal == IF last.op = "eq" THEN last.res ELSE ~ last.res IN
        IF IsSchema(last.other)
        THEN equal <=> SameDefinition(last.this, last.other)
        ELSE ~ equal

\* two Schemas on two dict objects, with equal definitions and other
\* settings, found equal
C19_Witness ==
    /\ Compared
    /\ last.op = "eq"
    /\ last.res
    /\ IsSchema(last.other)
    /\ last.this.schema.kind = "dict"
    /\ last.this.schema # last.other.schema
    /\ heap[last.this.schema.id] # heap[last.other.schema.id]
    /\ last.this.required # last.other.required
    /\ last.this.extra # last.other.extra

(***************************************************************************)
(* C20 (the callable validator normalizes errors).  For a definition that  *)
(* is a function: what the function returns is the result; a ValueError    *)
(* becomes an Invalid with the message 'not a valid value'; an Invalid the *)
(* function raises is raised as it is, kind and message; any other         *)
(* exception e becomes an Invalid with the message str(e).  Whatever the   *)
(* validator raises is an Invalid.                                         *)
(***************************************************************************)
CallableCall == last.called /\ self.schema.kind = "function"

\* what the function itself does on the input of the last call
Called == UserCall(self.schema, last.data)

C20_CallableNormalized ==
    CallableCall =>
        /\ Called.tag = "return"
              => last.root.ok /\ last.root.val = Called.val
        /\ Called.tag = "ValueError"
              => /\ ~ last.root.ok
                 /\ last.root.err.cls = "Invalid"
                 /\ last.root.err.msg = "not a valid value"
        /\ Called.tag = "Invalid"
              => ~ last.root.ok /\ last.root.err = Called.err
        /\ Called.tag = "Exception"
              => /\ ~ last.root.ok
                 /\ last.root.err.cls = "Invalid"
                 /\ last.root.err.msg = Called.str
        /\ ~ last.root.ok => IsInvalid(last.root.err)

\* the function failed with an exception that is neither ValueError nor Invalid
C20_Witness ==
    /\ CallableCall
    /\ Called.tag = "Exception"
    /\ ~ last.root.ok

(***************************************************************************)
(* C21.  A definition that is a plain type is checked with isinstance and  *)
(* not called: an instance of the type is returned as it is, and any other *)
(* value fails with an error of kind TypeInvalid whose message names the   *)
(* type.                                                                   *)
(***************************************************************************)
TypeCall == last.called /\ self.schema.kind = "type"

C21_TypeInvalid ==
    TypeCall =>
        /\ self.compiled.fn = "validate_instance"
        /\ isinstance(last.data, self.schema)
              => last.root.ok /\ last.root.val = last.data
        /\ ~ isinstance(last.data, self.schema)
              => /\ ~ last.root.ok
                 /\ last.root.err.cls = "TypeInvalid"
                 /\ last.root.err.msg = "expected " \o self.schema.name

(***************************************************************************)
(* C22.  The aggregate a dict validation raises is flat: none of its       *)
(* errors is itself a MultipleInvalid, and the failures of several keys    *)
(* inside a nested dict are entries of their own in the one aggregate.     *)
(***************************************************************************)
NestedKeys ==
    {i \in DOMAIN Entries :
        /\ Entries[i].val.kind = "dict"
        /\ Entries[i].key.schema \in DOMAIN DataItems
        /\ DataItems[Entries[i].key.schema].kind = "dict"}

\* the number of failures inside the nested dict of item i
NestedFailures(i) ==
    LET r == KeyResult(i, <<"a", "b", "c">>)
    IN IF r.ok THEN 0
       ELSE IF r.err.cls = "MultipleInvalid" THEN Len(r.err.errors) ELSE 1

C22_FlatAggregate ==
    (DictCall /\ ~ last.res.ok /\ last.res.err.cls = "MultipleInvalid") =>
        /\ \A e \in DOMAIN Errors : Errors[e].cls # "MultipleInvalid"
        /\ \A i \in NestedKeys : Len(Errors) >= NestedFailures(i)

(***************************************************************************)
(* C23.  Every error of the aggregate a dict validation raises carries the *)
(* path from the root of the input to the failure: a value failing under   *)
(* key k of the top-level dict has path <<k>>, and no error has an empty   *)
(* path.                                                                   *)
(***************************************************************************)
C23_FullPaths ==
    (/\ DictCall /\ ~ last.res.ok /\ last.res.err.cls = "MultipleInvalid"
     /\ FailingKeys # {} /\ OutsideKeys = {}) =>
        /\ \A e \in DOMAIN Errors : Errors[e].path # <<>>
        /\ \A i \in FailingKeys :
              Entries[i].val.kind # "dict" =>
                  \E e \in DOMAIN Errors :
                      Errors[e].path = <<Entries[i].key.schema>>

(***************************************************************************)
(* C24.  In a dict definition, an input key matched by a Remove-marked key *)
(* is absent from the output and contributes no error: when nothing else   *)
(* is wrong with the input the call succeeds, and the output lacks the     *)
(* key.                                                                    *)
(***************************************************************************)
RemoveKeys ==
    {i \in DOMAIN Entries :
        /\ Entries[i].key.marker = "Remove"
        /\ Entries[i].key.schema \in DOMAIN DataItems}

C24_RemoveDropped ==
    (DictCall /\ RemoveKeys # {}) =>
        /\ last.res.ok =>
              \A i \in RemoveKeys : Entries[i].key.schema \notin DOMAIN Out
        /\ (/\ OutsideKeys = {}
            /\ FailingKeys = {}
            /\ AbsentWith({"Required"}) = {}) => last.res.ok

(***************************************************************************)
(* C25.  A Marker of any of the five kinds wrapping k equals k and hashes  *)
(* like k, so in the set difference of validate_dict a marker-wrapped key  *)
(* stands for the plain key: an input whose keys are all keys of the       *)
(* definition has no extra key.                                            *)
(***************************************************************************)
ExtraKeysReported ==
    /\ ~ last.res.ok
    /\ \E j \in DOMAIN Errors : IsExtraKeysError(Errors[j])

NoConfiguredDefault ==
    self.schema.kind = "dict" =>
        \A i \in DOMAIN Entries :
            "default" \in DOMAIN Entries[i].key
                => Entries[i].key.default.default = UNDEFINED

C26_Idempotent ==
    (last.called /\ last.res.ok /\ NoConfiguredDefault) =>
        \A order \in Orders :
            LET again == Schema__call__(self, last.res.val, heap, order)
            IN /\ again.ok
               /\ again.val = last.res.val

(***************************************************************************)
(* The state machine of object validation: one Schema over an Object       *)
(* definition for the class Structure.  The caller builds objects of that  *)
(* class or of another one and validates them, or values that are no       *)
(* objects.                                                                *)
(***************************************************************************)
Structure == TypeV("Structure")

ObjDefs ==
    {ObjectS(<<Item(Plain("a"), v)>>, Structure) :
        v \in {TypeV("int"), FnV("zero"), FnV("strict")}}
        \cup {ObjectS(<<Item(Plain("a"), TypeV("int")), Item(k, FnV("zero"))>>,
                      Structure) :
                k \in {Plain("b"), Required("b", UNDEFINED)}}
        \cup {ObjectS(<<Item(Plain("b"), FnV("zero")),
                        Item(Plain("a"), TypeV("int"))>>, Structure),
              ObjectS(<<Item(Required("a", UNDEFINED), TypeV("int"))>>,
                      Structure),
              ObjectS(<<>>, Structure)}

\* the attribute dicts of the objects the caller builds
ObjAttrs ==
    {MkDict(a, b, Absent).items :
        a \in {Absent, IntV(1), StrV("x")}, b \in {Absent, IntV(1), StrV("x")}}

ObjData(h) ==
    {ObjectV(h[id].cls, id) : id \in DOMAIN h} \cup {IntV(1), DictV(EmptyItems)}

ObjInit ==
    /\ self \in {Schema__init__(d, FALSE, PREVENT_EXTRA) : d \in ObjDefs}
    /\ heap = <<>>
    /\ last = NoCall
    /\ outputs = <<>>
    /\ frames = <<>>

\* cls(**attrs)
MakeObject(cls, attrs) ==
    /\ Len(heap) < MaxObjects
    /\ heap' = Append(heap, [cls |-> cls, attrs |-> attrs])
    /\ UNCHANGED <<self, last, outputs, frames>>

\* schema(data) on an object: `pre` is the heap the call started in, `post`
\* the heap it left
CallObject(data) ==
    /\ LET order == <<"a", "b", "c">>
           root == Apply(self, self.compiled, <<>>, data, heap, order)
           res == Schema__call__(self, data, heap, order)
       IN /\ heap' = res.heap
          /\ last' = [called |-> TRUE, data |-> data, pre |-> heap,
                      post |-> res.heap,
                      root |-> Outcome(root), res |-> Outcome(res)]
    /\ UNCHANGED <<self, outputs, frames>>

ObjNext ==
    \/ \E cls \in {"Structure", "Other"}, attrs \in ObjAttrs :
          MakeObject(cls, attrs)
    \/ \E data \in ObjData(heap) : CallObject(data)

ObjSpec == ObjInit /\ [][ObjNext]_vars

(***************************************************************************)
(* C27.  Object validation: a value that is no instance of the declared    *)
(* class fails with ObjectInvalid and no attribute is touched; a           *)
(* successful call returns the input object itself, each attribute the     *)
(* definition lists holding its validated value; an absent Required        *)
(* attribute contributes a RequiredFieldInvalid to the aggregate.          *)
(***************************************************************************)
ObjCall == last.called /\ self.schema.kind = "Object"

\* the attributes of the input object before the call
PreAttrs == last.pre[last.data.id].attrs

C27_ObjectValidation ==
    ObjCall =>
        /\ ~ isinstance(last.data, self.schema.cls) =>
              /\ ~ last.root.ok
              /\ last.root.err.cls = "ObjectInvalid"
              /\ last.post = last.pre
        /\ (isinstance(last.data, self.schema.cls) /\ last.res.ok) =>
              /\ last.res.val = last.data
              /\ \A i \in DOMAIN Entries :
                    Entries[i].key.schema \in DOMAIN PreAttrs =>
                        LET r == Apply(self, self.compiled.schema[i].val,
                                       <<Entries[i].key.schema>>,
                                       PreAttrs[Entries[i].key.schema],
                                       last.pre, <<"a", "b", "c">>)
                        IN /\ r.ok
                           /\ last.post[last.data.id]
                                    .attrs[Entries[i].key.schema] = r.val
        /\ (/\ isinstance(last.data, self.schema.cls)
            /\ \E i \in DOMAIN Entries :
                  /\ IsRequired(Entries[i].key)
                  /\ Entries[i].key.schema \notin DOMAIN PreAttrs) =>
              /\ ~ last.res.ok
              /\ \E e \in DOMAIN Errors :
                    Errors[e].cls = "RequiredFieldInvalid"

(***************************************************************************)
(* The state machine of the compile hook: one Schema, whose required flag  *)
(* is either value, and composites of up to MaxValidators sub-validators   *)
(* whose hook is called with that Schema.                                  *)
(***************************************************************************)
SubValidators == {TypeV("int"), FnV("strict"), HookS}

RECURSIVE ValidatorsUpTo(_)
ValidatorsUpTo(n) ==
    IF n = 0 THEN {<<>>}
    ELSE ValidatorsUpTo(n - 1)
            \cup {Append(s, v) : s \in {x \in ValidatorsUpTo(n - 1) :
                                            Len(x) = n - 1},
                                 v \in SubValidators}

Composites ==
    {AnyOf(validators, required) :
        validators \in ValidatorsUpTo(MaxValidators), required \in BOOLEAN}

HookInit ==
    /\ self \in {Schema__init__(d, required, extra) :
                    d \in {TypeV("int"), DictS(<<>>)},
                    required \in BOOLEAN,
                    extra \in {PREVENT_EXTRA, ALLOW_EXTRA}}
    /\ heap = <<>>
    /\ last = NoCall
    /\ outputs = <<>>
    /\ frames = <<>>

\* composite.__voluptuous_compile__(self): `pre` is the Schema before the call
CompileHook(composite) ==
    /\ LET res == __voluptuous_compile__(composite, self)
       IN /\ self' = res.schema
          /\ last' = [called |-> FALSE, op |-> "compile",
                      composite |-> composite, pre |-> self,
                      res |-> [ok |-> res.ok, val |-> res.val,
                               err |-> res.err]]
    /\ UNCHANGED <<heap, outputs, frames>>

HookNext == \E composite \in Composites : CompileHook(composite)

HookSpec == HookInit /\ [][HookNext]_vars

(***************************************************************************)
(* C30.  The compile hook of a composite leaves the required flag of the   *)
(* Schema as it found it, whether it returns or the compilation of a       *)
(* sub-validator raises, for every number of sub-validators; the rest of   *)
(* the Schema is untouched too.                                            *)
(***************************************************************************)
HookCall == "op" \in DOMAIN last /\ last.op = "compile"

C30_RequiredRestored ==
    HookCall => self = last.pre

(***************************************************************************)
(* C29.  A dict validation visits the items of the definition in the order *)
(* of _iterate_mapping_candidates, whatever their insertion order: the     *)
(* Required-marked keys first, then the others, each group sorted by key;  *)
(* the errors of the aggregate come in that order, those of Required keys  *)
(* before those of the other keys.                                         *)
(***************************************************************************)
\* the place of a key among the sorted keys of the model
KeyIndex(k) == CHOOSE i \in 1..3 : <<"a", "b", "c">>[i] = k

\* item_sort: the pair (not isinstance(key, Required), key), as one number
_sort_item(item) ==
    (IF IsRequired(item.key) THEN 0 ELSE 3) + KeyIndex(item.key.schema)

\* sorted(schema.items(), key=_sort_item)
_iterate_mapping_candidates(schema) ==
    SortSeq(schema, LAMBDA x, y : _sort_item(x) < _sort_item(y))

\* the errors of the loop when it visits the items in the sorted order
SortedErrors(order) ==
    dict_loop(self, _iterate_mapping_candidates(self.compiled.schema), 1,
              <<>>, last.data,
              [out |-> EmptyItems, errors |-> <<>>, heap |-> last.pre],
              order).errors

C29_SortedVisit ==
    (DictCall /\ ~ last.res.ok /\ last.res.err.cls = "MultipleInvalid") =>
        \E order \in Orders :
            /\ Len(Errors) >= Len(SortedErrors(order))
            /\ SubSeq(Errors, 1, Len(SortedErrors(order))) = SortedErrors(order)

(***************************************************************************)
(* The state machine of concurrent use: MaxThreads threads call one Schema *)
(* over a dict definition, each once and each with its own input.  A call  *)
(* is a frame of validate_dict: its input, its place in the loop over the  *)
(* items and its locals out and errors.  The threads interleave between    *)
(* the iterations of the loop; the heap is the one they share.             *)
(***************************************************************************)
Threads == 1..MaxThreads

ConcDefs ==
    {DictS(<<Item(Plain("a"), TypeV("int")), Item(Plain("b"), FnV("zero"))>>),
     DictS(<<Item(Required("a", UNDEFINED), TypeV("int")),
             Item(Optional("b", TypeV("list")), TypeV("int"))>>),
     DictS(<<Item(Optional("a", TypeV("list")), TypeV("int"))>>)}

ConcData ==
    {MkDict(IntV(1), IntV(1), Absent), MkDict(StrV("x"), StrV("x"), Absent),
     MkDict(Absent, IntV(1), IntV(1)), MkDict(Absent, Absent, Absent),
     MkDict(IntV(1), Absent, Absent), IntV(1)}

Idle ==
    [pc |-> "idle", this |-> NoVal, data |-> NoVal, i |-> 0,
     out |-> EmptyItems, errors |-> <<>>, res |-> NoCall]

\* the locals out and errors that belong to all the calls at once
Locals_shared(fr, t) == fr[1]

\* the locals out and errors of the call of thread t
Locals(fr, t) == fr[t]

ConcInit ==
    /\ self \in {Schema__init__(d, FALSE, extra) :
                    d \in ConcDefs, extra \in {PREVENT_EXTRA, ALLOW_EXTRA}}
    /\ heap = <<>>
    /\ last = NoCall
    /\ outputs = <<>>
    /\ frames = [t \in Threads |-> Idle]

\* thread t enters schema(data); a value that is no dict is rejected at once
Begin(t, data) ==
    /\ frames[t].pc = "idle"
    /\ frames' = [frames EXCEPT ![t] =
          IF data.kind # "dict"
          THEN [Idle EXCEPT !.pc = "done", !.this = self, !.data = data,
                   !.res = Outcome(Schema__call__(self, data, heap,
                                                  <<"a", "b", "c">>))]
          ELSE [Idle EXCEPT !.pc = "loop", !.this = self, !.data = data,
                            !.i = 1]]
    /\ UNCHANGED <<self, heap, last, outputs>>

\* one iteration of the loop of thread t
Step(t) ==
    /\ frames[t].pc = "loop"
    /\ frames[t].i <= Len(self.compiled.schema)
    /\ LET own == Locals(frames, t)
           acc == dict_item(self, self.compiled.schema[frames[t].i], <<>>,
                            frames[t].data,
                            [out |-> own.out, errors |-> own.errors,
                             heap |-> heap],
                            <<"a", "b", "c">>)
       IN /\ heap' = acc.heap
          /\ frames' = [frames EXCEPT ![t].out = acc.out,
                                      ![t].errors = acc.errors,
                                      ![t].i = @ + 1]
    /\ UNCHANGED <<self, last, outputs>>

\* thread t leaves the loop: the extra keys, then the return or the raise,
\* which Schema.__call__ passes on
Finish(t) ==
    /\ frames[t].pc = "loop"
    /\ frames[t].i > Len(self.compiled.schema)
    /\ LET own == Locals(frames, t)
           r == dict_finish(self, self.compiled.schema, frames[t].data,
                            [out |-> own.out, errors |-> own.errors,
                             heap |-> heap],
                            <<"a", "b", "c">>)
       IN frames' = [frames EXCEPT ![t].pc = "done", ![t].res = Outcome(r)]
    /\ UNCHANGED <<self, heap, last, outputs>>

ConcNext ==
    \E t \in Threads :
        \/ \E data \in ConcData : Begin(t, data)
        \/ Step(t)
        \/ Finish(t)

ConcSpec == ConcInit /\ [][ConcNext]_vars

(***************************************************************************)
(* C28.  Under every interleaving of the calls of the threads on one       *)
(* Schema, each call ends as the same call does alone: it succeeds or      *)
(* fails alike, with an equal output or an equal aggregate; and the Schema *)
(* is then the Schema the call was made on: definition, required and extra *)
(* are unchanged.                                                          *)
(***************************************************************************)
Done(t) == frames[t].pc = "done"

\* the call of thread t, run alone from an empty heap
Alone(t) == Schema__call__(self, frames[t].data, <<>>, <<"a", "b", "c">>)

C28_ConcurrentCalls ==
    \A t \in Threads :
        Done(t) =>
            /\ frames[t].res.ok = Alone(t).ok
            /\ frames[t].res.err = Alone(t).err
            /\ frames[t].res.ok =>
                  Contents(frames[t].res.val, heap)
                      = Contents(Alone(t).val, Alone(t).heap)
            /\ self = frames[t].this

\* two finished calls on different inputs, both of which created a list:
\* the first failed, the second returned the list that was created first
C28_Witness ==
    /\ Done(1) /\ Done(2)
    /\ frames[1].data # frames[2].data
    /\ ~ frames[1].res.ok
    /\ frames[2].res.ok
    /\ \E k \in DOMAIN frames[2].res.val.items :
          frames[2].res.val.items[k] = ListRef(1)
    /\ Len(heap) = 2
====
